---- MODULE Spec2Model ----
(***************************************************************************)
(* A model of convert.py: the ordering key of a filename, the listing of   *)
(* the eligible inputs, and main's two steps, generate_annotation and      *)
(* generate_concatenated_video, acting on one video directory.             *)
(*                                                                         *)
(* A filename is a sequence of one-character strings, so that splitting at *)
(* dots, percent-decoding, lower-casing and digit runs are computed on the *)
(* characters as the Python code computes them.                            *)
(***************************************************************************)
EXTENDS Integers, Sequences, FiniteSets, TLC

VARIABLES
    fs,              \* the video directory: entry name -> what the entry holds
    manifest,        \* the lines of input.txt as last written by the tool
    config,          \* the keys of the mapping config.yaml parses to
    codec,           \* the video codec of the directory's media, as the prober names it
    pc,              \* where main is
    run,             \* how many times main has been entered
    annotated,       \* main's local: what generate_annotation returned
    exc,             \* the exception that ended the run, or "none"
    video_encoding,  \* generate_annotation's local: the probed video codec
    video0,          \* generate_annotation's videos[0]
    invoked,         \* what the current run has called: tools, writes, renames
    stdout,          \* what the current run has printed
    exit_status,     \* how the last finished run ended
    filename,        \* argument of a call of _video_number
    num,             \* what that call returned
    kpc              \* where that call is

vars == <<fs, manifest, config, codec, pc, run, annotated, exc, video_encoding, video0,
          invoked, stdout, exit_status, filename, num, kpc>>

pipelineVars == <<fs, manifest, config, codec, pc, run, annotated, exc, video_encoding,
                  video0, invoked, stdout, exit_status>>

keyVars == <<filename, num, kpc>>

----------------------------------------------------------------------------
(* Bounds *)

\* longest filename given to _video_number on its own
MaxLen == 5

\* how many times main is run on the directory
MaxRuns == 2

----------------------------------------------------------------------------
(* Characters and the str methods the code uses *)

Digits == {"0", "1", "2", "3", "4", "5", "6", "7", "8", "9"}

DigitVal(c) ==
    CASE c = "0" -> 0 [] c = "1" -> 1 [] c = "2" -> 2 [] c = "3" -> 3
      [] c = "4" -> 4 [] c = "5" -> 5 [] c = "6" -> 6 [] c = "7" -> 7
      [] c = "8" -> 8 [] c = "9" -> 9

HexDigits == Digits \cup {"a", "b", "c", "d", "e", "f", "A", "B", "C", "D", "E", "F"}

HexVal(c) ==
    CASE c \in Digits -> DigitVal(c)
      [] c \in {"a", "A"} -> 10 [] c \in {"b", "B"} -> 11
      [] c \in {"c", "C"} -> 12 [] c \in {"d", "D"} -> 13
      [] c \in {"e", "E"} -> 14 [] c \in {"f", "F"} -> 15

\* The character a decoded byte stands for.  A byte of 0x80 or more that is
\* not part of a valid UTF-8 sequence decodes to U+FFFD (errors="replace");
\* the escapes the model's alphabets can spell give no valid multi-byte
\* sequence.  Bytes outside the table are written by their code.
Chr(b) ==
    CASE b = 32 -> " " [] b = 33 -> "!" [] b = 34 -> "\"" [] b = 35 -> "#"
      [] b = 37 -> "%" [] b = 46 -> "."
      [] b = 48 -> "0" [] b = 49 -> "1" [] b = 50 -> "2" [] b = 51 -> "3"
      [] b = 52 -> "4" [] b = 53 -> "5" [] b = 54 -> "6" [] b = 55 -> "7"
      [] b = 56 -> "8" [] b = 57 -> "9" [] b = 62 -> ">" [] b = 69 -> "E"
      [] b >= 128 -> "U+FFFD"
      [] OTHER -> ToString(b)

\* urllib.parse.unquote: %XX with two hex digits becomes the character, a
\* "%" not followed by two hex digits stays as it is.
RECURSIVE unquote(_)
unquote(s) ==
    IF s = <<>> THEN <<>>
    ELSE IF /\ s[1] = "%"
            /\ Len(s) >= 3
            /\ s[2] \in HexDigits
            /\ s[3] \in HexDigits
         THEN <<Chr(16 * HexVal(s[2]) + HexVal(s[3]))>> \o unquote(SubSeq(s, 4, Len(s)))
         ELSE <<s[1]>> \o unquote(Tail(s))

DotPositions(s) == {i \in 1..Len(s) : s[i] = "."}

Max(S) == CHOOSE x \in S : \A y \in S : y <= x

Min(S) == CHOOSE x \in S : \A y \in S : x <= y

\* s.rsplit(".")[0] (no maxsplit: every dot splits): the text before the first dot
RsplitFirst(s) ==
    IF DotPositions(s) = {} THEN s ELSE SubSeq(s, 1, Min(DotPositions(s)) - 1)

\* s.rsplit(".")[-1] and s.rsplit(".", 1)[-1]: the text after the last dot,
\* the whole of s when it has no dot
RsplitLast(s) ==
    IF DotPositions(s) = {} THEN s ELSE SubSeq(s, Max(DotPositions(s)) + 1, Len(s))

\* re.findall(r"\d+", s): the maximal runs of digits, left to right
RECURSIVE findall_digits(_)
findall_digits(s) ==
    IF s = <<>> THEN <<>>
    ELSE IF s[1] \notin Digits THEN findall_digits(Tail(s))
    ELSE LET stop == IF \E i \in 1..Len(s) : s[i] \notin Digits
                     THEN Min({i \in 1..Len(s) : s[i] \notin Digits})
                     ELSE Len(s) + 1
         IN  <<SubSeq(s, 1, stop - 1)>> \o findall_digits(SubSeq(s, stop, Len(s)))

\* int() of a run of digits
RECURSIVE int(_)
int(ds) ==
    IF ds = <<>> THEN 0
    ELSE 10 * int(SubSeq(ds, 1, Len(ds) - 1)) + DigitVal(ds[Len(ds)])

\* numbers[-1] of an empty list raises IndexError; the model returns this
IndexError == -1

_video_number(name) ==
    LET numbers == findall_digits(RsplitFirst(unquote(name)))
    IN  IF numbers = <<>> THEN IndexError ELSE int(numbers[Len(numbers)])

----------------------------------------------------------------------------
(* _video_number on its own, over every short filename of an alphabet that *)
(* spells dots, digits, a letter and percent-escapes of dots and digits    *)

Alphabet == {"E", "1", "2", "3", ".", "%"}

RECURSIVE Strings(_)
Strings(n) ==
    IF n = 0 THEN {<<>>}
    ELSE LET shorter == Strings(n - 1)
         IN  shorter \cup {Append(s, c) : s \in {t \in shorter : Len(t) = n - 1}, c \in Alphabet}

Idle ==
    /\ fs = <<>>
    /\ manifest = <<>>
    /\ config = {}
    /\ codec = "none"
    /\ pc = "idle"
    /\ run = 0
    /\ annotated = FALSE
    /\ exc = "none"
    /\ video_encoding = "none"
    /\ video0 = <<>>
    /\ invoked = {}
    /\ stdout = {}
    /\ exit_status = "none"

InitKey ==
    /\ Idle
    /\ filename \in Strings(MaxLen) \ {<<>>}
    /\ num = 0
    /\ kpc = "call"

CallVideoNumber ==
    /\ kpc = "call"
    /\ num' = _video_number(filename)
    /\ kpc' = "returned"
    /\ UNCHANGED <<filename, pipelineVars>>

NextKey == CallVideoNumber

SpecKey == InitKey /\ [][NextKey]_vars

----------------------------------------------------------------------------
(* File names *)

INPUT_TXT == <<"i", "n", "p", "u", "t", ".", "t", "x", "t">>

OUTPUT_NAME == <<"o", "u", "t", "p", "u", "t", ".", "m", "k", "v">>

CONFIG_NAME == <<"c", "o", "n", "f", "i", "g", ".", "y", "a", "m", "l">>

COVER_NAME == <<"c", "o", "v", "e", "r", ".", "p", "n", "g">>

IGNORE_EXTENSIONS ==
    { <<".", "t", "x", "t">>, <<".", "j", "p", "g">>,
      <<".", "p", "n", "g">>, <<".", "y", "a", "m", "l">> }

CODEC_MAP == [h264 |-> "libx264"]

UpperCase == <<"A", "B", "C", "D", "E", "F", "G", "H", "I", "J", "K", "L", "M",
               "N", "O", "P", "Q", "R", "S", "T", "U", "V", "W", "X", "Y", "Z">>

LowerCase == <<"a", "b", "c", "d", "e", "f", "g", "h", "i", "j", "k", "l", "m",
               "n", "o", "p", "q", "r", "s", "t", "u", "v", "w", "x", "y", "z">>

\* str.lower
lower(s) ==
    [i \in 1..Len(s) |->
        IF \E k \in 1..26 : UpperCase[k] = s[i]
        THEN LowerCase[CHOOSE k \in 1..26 : UpperCase[k] = s[i]]
        ELSE s[i]]

\* str.endswith of one suffix
endswith(s, suffix) ==
    /\ Len(s) >= Len(suffix)
    /\ SubSeq(s, Len(s) - Len(suffix) + 1, Len(s)) = suffix

\* The names _get_video_list keeps of a directory listing
_get_video_list(names) ==
    {name \in names : ~ \E e \in IGNORE_EXTENSIONS : endswith(lower(name), e)}

\* os.listdir gives the names in an arbitrary order: every order of a set
RECURSIVE Listings(_)
Listings(S) ==
    IF S = {} THEN {<<>>}
    ELSE UNION {{<<x>> \o l : l \in Listings(S \ {x})} : x \in S}

\* sorted(videos, key=_video_number) is stable: a name goes after the names
\* already placed whose key is not larger
RECURSIVE InsertByKey(_, _)
InsertByKey(placed, name) ==
    IF placed = <<>> THEN <<name>>
    ELSE IF _video_number(placed[Len(placed)]) <= _video_number(name)
         THEN Append(placed, name)
         ELSE Append(InsertByKey(SubSeq(placed, 1, Len(placed) - 1), name),
                     placed[Len(placed)])

RECURSIVE SortPrefix(_, _)
SortPrefix(videos, n) ==
    IF n = 0 THEN <<>> ELSE InsertByKey(SortPrefix(videos, n - 1), videos[n])

\* faulty variant: the names are written in listing order
sorted_listing_order(videos) == videos

sorted(videos) == SortPrefix(videos, Len(videos))

\* "file '{}'".format(name)
ManifestLine(name) == <<"f", "i", "l", "e", " ", "'">> \o name \o <<"'">>

\* The lines the loop of generate_concatenated_video prints to input.txt
ManifestLines(videos) ==
    LET kept == SelectSeq(sorted(videos), LAMBDA name : ~ endswith(name, <<".", "t", "x", "t">>))
    IN  [i \in 1..Len(kept) |-> ManifestLine(kept[i])]

\* faulty variant: the clip is named annotation.<ext>
AnnotationNameUnnumbered(video) ==
    <<"a", "n", "n", "o", "t", "a", "t", "i", "o", "n", ".">> \o RsplitLast(video)

\* "{fname}.{ext}" with fname annotation_0 and ext the text after the last
\* dot of videos[0]
AnnotationName(video) ==
    <<"a", "n", "n", "o", "t", "a", "t", "i", "o", "n", "_", "0", ".">> \o RsplitLast(video)

----------------------------------------------------------------------------
(* The directory *)

\* f with entry name holding content, created or overwritten
WriteFile(f, name, content) ==
    [x \in (DOMAIN f) \cup {name} |-> IF x = name THEN content ELSE f[x]]

\* os.rename(src, dst)
Rename(f, src, dst) ==
    [x \in ((DOMAIN f) \ {src}) \cup {dst} |-> IF x = dst THEN f[src] ELSE f[x]]

\* The entries a directory may hold before the first run
Clip1 == <<"c", "1", ".", "m", "p", "4">>

Clip2 == <<"c", "2", ".", "m", "p", "4">>

Intro == <<"i", "n", ".", "m", "p", "4">>

Clip3Mkv == <<"c", "3", ".", "m", "k", "v">>

Raw7 == <<"r", "7">>

Notes == <<"N", ".", "T", "X", "T">>

InitialNames == {Clip1, Clip2, Intro, Clip3Mkv, Raw7, Notes, CONFIG_NAME, OUTPUT_NAME}

RequiredKeys == {"title", "date", "venue"}

ConfigChoices == {{"title", "date", "venue"}, {"title", "date"}}

\* What the prober may report as the video codec of the directory's media;
\* the annotation clip is encoded with the encoder of the same codec
Codecs == {"h264", "hevc"}

----------------------------------------------------------------------------
(* generate_cover_image: the directory it leaves and the exception it      *)
(* raises, "none" when it returns                                          *)

\* faulty variant: the image is saved under the name of the config file
generate_cover_image_as_config(f, cfg) ==
    IF CONFIG_NAME \notin DOMAIN f
    THEN [fs |-> f, exc |-> "FileNotFoundError"]
    ELSE IF ~ ({"title", "date", "venue"} \subseteq cfg)
    THEN [fs |-> f, exc |-> "RuntimeError"]
    ELSE [fs |-> WriteFile(f, CONFIG_NAME, "cover"), exc |-> "none"]

generate_cover_image(f, cfg) ==
    IF CONFIG_NAME \notin DOMAIN f
    THEN [fs |-> f, exc |-> "FileNotFoundError"]
    ELSE IF ~ (RequiredKeys \subseteq cfg)
    THEN [fs |-> f, exc |-> "RuntimeError"]
    ELSE [fs |-> WriteFile(f, COVER_NAME, "cover"), exc |-> "none"]

----------------------------------------------------------------------------
(* generate_annotation: its possible outcomes on directory f with videos[0] *)
(* being video and the prober reporting codec enc.  An outcome is the       *)
(* directory left, the value returned, the exception raised ("none" when it *)
(* returns) and what was called.                                            *)

\* the prober exits non-zero, or prints other than three fields
ProbeFails(f, video) ==
    { [fs |-> f, ret |-> FALSE, exc |-> e, calls |-> {"ffprobe_video"},
       video0 |-> video, enc |-> "none"] : e \in {"CalledProcessError", "ValueError"} }

\* faulty variant: the codec is tested after the cover image has been generated
UnsupportedCodecAfterCover(f, video, enc) ==
    { [fs |-> WriteFile(f, COVER_NAME, "cover"), ret |-> FALSE, exc |-> "none",
       calls |-> {"ffprobe_video", "generate_cover_image"},
       video0 |-> video, enc |-> enc] }

\* if video_encoding not in CODEC_MAP: return False
UnsupportedCodec(f, video, enc) ==
    { [fs |-> f, ret |-> FALSE, exc |-> "none", calls |-> {"ffprobe_video"},
       video0 |-> video, enc |-> enc] }

\* the cover image, the audio probe and the encode of annotation_0.<ext>
EncodeAnnotation(f, cfg, video, enc) ==
    LET cover == generate_cover_image(f, cfg)
        clip  == AnnotationName(video)
        c1    == {"ffprobe_video", "generate_cover_image"}
        c2    == c1 \cup {"ffprobe_audio"}
        c3    == c2 \cup {"ffmpeg_annotation"}
        out(g, r, e, c) ==
            [fs |-> g, ret |-> r, exc |-> e, calls |-> c, video0 |-> video, enc |-> enc]
    IN  IF cover.exc # "none"
        THEN {out(cover.fs, FALSE, cover.exc, c1)}
        ELSE { out(cover.fs, FALSE, "CalledProcessError", c2),
               out(WriteFile(cover.fs, clip, "annotation"), TRUE, "none", c3),
               out(cover.fs, FALSE, "CalledProcessError", c3),
               out(WriteFile(cover.fs, clip, "partial"), FALSE, "CalledProcessError", c3) }

generate_annotation(f, cfg, enc) ==
    LET videos == _get_video_list(DOMAIN f)
    IN  IF videos = {}
        THEN { [fs |-> f, ret |-> FALSE, exc |-> "IndexError", calls |-> {},
                video0 |-> <<>>, enc |-> "none"] }
        ELSE UNION { ProbeFails(f, video)
                     \cup (IF enc \notin DOMAIN CODEC_MAP
                           THEN UnsupportedCodec(f, video, enc)
                           ELSE EncodeAnnotation(f, cfg, video, enc))
                     : video \in videos }

----------------------------------------------------------------------------
(* generate_concatenated_video: its possible outcomes on directory f with   *)
(* input.txt holding lines m.  An outcome is the directory and the manifest *)
(* left, the exception raised, what was called and what was printed.        *)

Message(text, arg) == [text |-> text, arg |-> arg]

\* faulty variant: an existing output is written again
OutputOverwritten(f, m) ==
    { [fs |-> WriteFile(f, OUTPUT_NAME, "output"), manifest |-> m, exc |-> "none",
       calls |-> {"ffmpeg_concat"}, out |-> {}] }

\* if os.path.exists(output_file): print and return
OutputExists(f, m) ==
    { [fs |-> f, manifest |-> m, exc |-> "none", calls |-> {},
       out |-> {Message("already exists!", OUTPUT_NAME)}] }

\* faulty variant: the single input is copied to the output and stays
CopySingle(f, m, video) ==
    { [fs |-> WriteFile(f, OUTPUT_NAME, f[video]), manifest |-> m, exc |-> "none",
       calls |-> {"rename"}, out |-> {Message("Renaming single video", video)}] }

\* if len(videos) == 1: rename it to the output
RenameSingle(f, m, video) ==
    { [fs |-> Rename(f, video, OUTPUT_NAME), manifest |-> m, exc |-> "none",
       calls |-> {"rename"}, out |-> {Message("Renaming single video", video)}] }

\* formats = {v.rsplit(".")[-1] for v in videos}
Formats(videos) == {RsplitLast(v) : v \in videos}

\* faulty variant: the formats are compared after input.txt has been opened
FormatMismatchAfterOpen(f, m) ==
    { [fs |-> WriteFile(f, INPUT_TXT, "manifest"), manifest |-> <<>>,
       exc |-> "AssertionError", calls |-> {"write_manifest"}, out |-> {}] }

\* assert len(formats) == 1 fails
FormatMismatch(f, m) ==
    { [fs |-> f, manifest |-> m, exc |-> "AssertionError", calls |-> {}, out |-> {}] }

\* input.txt is opened for writing, the sorted names are printed to it, and
\* the concat tool runs; a failing tool may leave a partial output behind
WriteManifestAndConcat(f, videos) ==
    LET opened == WriteFile(f, INPUT_TXT, "manifest")
        c1     == {"write_manifest"}
        c2     == {"write_manifest", "ffmpeg_concat"}
    IN  IF \E v \in videos : _video_number(v) = IndexError
        THEN { [fs |-> opened, manifest |-> <<>>, exc |-> "IndexError",
                calls |-> c1, out |-> {}] }
        ELSE UNION { LET lines == ManifestLines(listing)
                     IN  { [fs |-> WriteFile(opened, OUTPUT_NAME, "output"), manifest |-> lines,
                            exc |-> "none", calls |-> c2, out |-> {}],
                           [fs |-> opened, manifest |-> lines,
                            exc |-> "CalledProcessError", calls |-> c2, out |-> {}],
                           [fs |-> WriteFile(opened, OUTPUT_NAME, "partial"), manifest |-> lines,
                            exc |-> "CalledProcessError", calls |-> c2, out |-> {}] }
                     : listing \in Listings(videos) }

generate_concatenated_video(f, m) ==
    LET videos == _get_video_list(DOMAIN f)
    IN  IF OUTPUT_NAME \in DOMAIN f THEN OutputExists(f, m)
        ELSE IF Cardinality(videos) = 1
        THEN RenameSingle(f, m, CHOOSE v \in videos : TRUE)
        ELSE IF Cardinality(Formats(videos)) # 1 THEN FormatMismatch(f, m)
        ELSE WriteManifestAndConcat(f, videos)

----------------------------------------------------------------------------
(* main, run up to MaxRuns times on one directory *)

Init ==
    /\ \E names \in SUBSET InitialNames : fs = [n \in names |-> "original"]
    /\ manifest = <<>>
    /\ config \in IF CONFIG_NAME \in DOMAIN fs THEN ConfigChoices ELSE {{}}
    /\ codec \in Codecs
    /\ pc = "idle"
    /\ run = 0
    /\ annotated = FALSE
    /\ exc = "none"
    /\ video_encoding = "none"
    /\ video0 = <<>>
    /\ invoked = {}
    /\ stdout = {}
    /\ exit_status = "none"
    /\ filename = <<>>
    /\ num = 0
    /\ kpc = "idle"

\* main(video_dir) is called
MainEnter ==
    /\ pc \in {"idle", "done", "aborted"}
    /\ run < MaxRuns
    /\ run' = run + 1
    /\ pc' = "annotation"
    /\ annotated' = FALSE
    /\ exc' = "none"
    /\ video_encoding' = "none"
    /\ video0' = <<>>
    /\ invoked' = {}
    /\ stdout' = {}
    /\ UNCHANGED <<fs, manifest, config, codec, exit_status, keyVars>>

\* faulty variant: main calls the Concatenator only when an annotation was generated
AfterAnnotationOnlyIfAnnotated(e, ret) ==
    IF e # "none" THEN "aborted" ELSE IF ret THEN "concatenation" ELSE "notice"

\* where main goes when generate_annotation has ended with exception e
AfterAnnotation(e, ret) == IF e # "none" THEN "aborted" ELSE "concatenation"

\* annotated = generate_annotation(video_dir)
GenerateAnnotation ==
    /\ pc = "annotation"
    /\ \E o \in generate_annotation(fs, config, codec) :
        /\ fs' = o.fs
        /\ annotated' = o.ret
        /\ exc' = o.exc
        /\ video_encoding' = o.enc
        /\ video0' = o.video0
        /\ invoked' = invoked \cup o.calls
        /\ pc' = AfterAnnotation(o.exc, o.ret)
        /\ exit_status' = IF o.exc # "none" THEN "exception" ELSE exit_status
    /\ UNCHANGED <<manifest, config, codec, run, stdout, keyVars>>

\* generate_concatenated_video(video_dir)
GenerateConcatenatedVideo ==
    /\ pc = "concatenation"
    /\ \E o \in generate_concatenated_video(fs, manifest) :
        /\ fs' = o.fs
        /\ manifest' = o.manifest
        /\ exc' = o.exc
        /\ invoked' = invoked \cup o.calls
        /\ stdout' = stdout \cup o.out
        /\ pc' = IF o.exc # "none" THEN "aborted" ELSE "notice"
        /\ exit_status' = IF o.exc # "none" THEN "exception" ELSE exit_status
    /\ UNCHANGED <<config, codec, run, annotated, video_encoding, video0, keyVars>>

\* if not annotated: print(...), and main returns
MainReturn ==
    /\ pc = "notice"
    /\ stdout' = IF annotated THEN stdout
                 ELSE stdout \cup {Message("Did not generate an annotation video", <<>>)}
    /\ pc' = "done"
    /\ exit_status' = "ok"
    /\ UNCHANGED <<fs, manifest, config, codec, run, annotated, exc, video_encoding, video0,
                   invoked, keyVars>>

Next ==
    \/ MainEnter
    \/ GenerateAnnotation
    \/ GenerateConcatenatedVideo
    \/ MainReturn

Spec == Init /\ [][Next]_vars

----------------------------------------------------------------------------
(* Properties *)

\* the name a manifest line quotes
QuotedName(line) == SubSeq(line, 7, Len(line) - 1)

\* the eligible inputs the Concatenator listed, seen from the state it leaves:
\* the output did not exist when it listed them
ListedVideos == _get_video_list(DOMAIN fs) \ {OUTPUT_NAME}

RunInProgress == pc \in {"annotation", "concatenation", "notice"}

\* C1: a run of main that follows a successful run on the same directory
\* invokes neither the annotation encode nor the concatenation.
C1_SecondRunDoesNoTranscoding ==
    (RunInProgress /\ exit_status = "ok")
        => /\ OUTPUT_NAME \in DOMAIN fs
           /\ "ffmpeg_annotation" \notin invoked
           /\ "ffmpeg_concat" \notin invoked

\* C2 as stated: whatever the outcome of the annotation step, the
\* Concatenator is what main executes next.
C2_ConcatenatorFollowsEveryOutcome ==
    [][pc = "annotation" => pc' = "concatenation"]_vars

\* C2 amended: when generate_annotation returns (True or False) the
\* Concatenator is executed next, and it is never started from anywhere but
\* a finished annotation step; when generate_annotation raises, the run is
\* aborted and the Concatenator is not executed.
C2_ConcatenatorFollowsReturn ==
    [][/\ (pc = "annotation" /\ exc' = "none") => pc' = "concatenation"
       /\ (pc = "annotation" /\ exc' # "none") => pc' = "aborted"
       /\ pc' = "concatenation" => pc = "annotation"]_vars

C2_Witness ==
    /\ pc = "notice"
    /\ ~ annotated
    /\ invoked \cap {"rename", "ffmpeg_concat"} # {}

ManifestIsSortedListing ==
    /\ Len(manifest) = Cardinality(ListedVideos)
    /\ {manifest[i] : i \in 1..Len(manifest)} = {ManifestLine(v) : v \in ListedVideos}
    /\ \A i, j \in 1..Len(manifest) :
        i < j => _video_number(QuotedName(manifest[i])) <= _video_number(QuotedName(manifest[j]))

\* C3 as stated: once the Concatenator has opened the manifest (more than one
\* eligible input, all of one extension), input.txt holds exactly one line
\* file '<name>' per eligible file, in ascending order of _video_number.
C3_ManifestListsEveryInputInKeyOrder ==
    "write_manifest" \in invoked => ManifestIsSortedListing

\* C3 amended: the same, provided _video_number returns a key for every
\* eligible file; when it raises for one of them the manifest is left empty
\* and the run ends with IndexError.
C3_ManifestListsKeyedInputsInKeyOrder ==
    "write_manifest" \in invoked
        => IF \A v \in ListedVideos : _video_number(v) # IndexError
           THEN ManifestIsSortedListing
           ELSE manifest = <<>> /\ exc = "IndexError"

C3_Witness ==
    /\ "write_manifest" \in invoked
    /\ Len(manifest) >= 3
    /\ exc = "none"

\* the filename with only its final extension removed
FinalStem(s) ==
    IF DotPositions(s) = {} THEN s ELSE SubSeq(s, 1, Max(DotPositions(s)) - 1)

\* C4: for every filename with a digit group in its stem (the decoded name
\* with only its final extension removed), _video_number returns the value
\* of the last digit group of that stem.
C4_KeyIsLastDigitGroupOfFinalStem ==
    kpc = "returned"
        => LET groups == findall_digits(FinalStem(unquote(filename)))
           IN  groups # <<>> => num = int(groups[Len(groups)])

\* C5: with no output and exactly one eligible input, the Concatenator
\* renames that input to the output and returns: the output then holds what
\* the input held, the input's name is gone, and no manifest is written and
\* no tool invoked; the input needs no digit group.
C5_SingleInputIsRenamed ==
    [][(/\ pc = "concatenation"
        /\ OUTPUT_NAME \notin DOMAIN fs
        /\ Cardinality(_get_video_list(DOMAIN fs)) = 1)
        => LET video == CHOOSE v \in _get_video_list(DOMAIN fs) : TRUE
           IN  /\ pc' = "notice"
               /\ exc' = "none"
               /\ OUTPUT_NAME \in DOMAIN fs'
               /\ fs'[OUTPUT_NAME] = fs[video]
               /\ video \notin DOMAIN fs'
               /\ manifest' = manifest
               /\ (INPUT_TXT \in DOMAIN fs') = (INPUT_TXT \in DOMAIN fs)
               /\ invoked' \cap {"write_manifest", "ffmpeg_concat"}
                    = invoked \cap {"write_manifest", "ffmpeg_concat"}]_vars

C5_Witness ==
    /\ pc = "notice"
    /\ \E m \in stdout :
        /\ m.text = "Renaming single video"
        /\ _video_number(m.arg) = IndexError
        /\ m.arg \notin DOMAIN fs
    /\ OUTPUT_NAME \in DOMAIN fs

\* C6: with no output and more than one eligible input whose extensions (the
\* text after the last dot) are not all equal, the Concatenator raises the
\* format-mismatch AssertionError with no manifest written, no output
\* created and no tool invoked.
C6_MixedFormatsRaiseBeforeAnyTool ==
    [][(/\ pc = "concatenation"
        /\ OUTPUT_NAME \notin DOMAIN fs
        /\ Cardinality(_get_video_list(DOMAIN fs)) > 1
        /\ \E a, b \in _get_video_list(DOMAIN fs) : RsplitLast(a) # RsplitLast(b))
        => /\ exc' = "AssertionError"
           /\ pc' = "aborted"
           /\ fs' = fs
           /\ manifest' = manifest
           /\ invoked' = invoked]_vars

C6_Witness ==
    /\ exc = "AssertionError"
    /\ Cardinality(_get_video_list(DOMAIN fs)) > 1
    /\ OUTPUT_NAME \notin DOMAIN fs
    /\ INPUT_TXT \notin DOMAIN fs

\* C7: when the output exists, a call of the Concatenator returns normally
\* and leaves the directory, the manifest and the record of invoked tools
\* as they were.
C7_ExistingOutputIsNoOp ==
    [][(pc = "concatenation" /\ OUTPUT_NAME \in DOMAIN fs)
        => /\ fs' = fs
           /\ manifest' = manifest
           /\ invoked' = invoked
           /\ exc' = "none"
           /\ pc' = "notice"]_vars

C7_Witness ==
    /\ pc = "notice"
    /\ Message("already exists!", OUTPUT_NAME) \in stdout

\* C8: when the probed video codec is not a key of CODEC_MAP,
\* generate_annotation returns False without raising, the directory is left
\* as it was, and neither the Cover Generator nor the annotation encode is
\* invoked.
C8_UnsupportedCodecReturnsFalse ==
    [][(/\ pc = "annotation"
        /\ video_encoding' # "none"
        /\ video_encoding' \notin DOMAIN CODEC_MAP)
        => /\ annotated' = FALSE
           /\ exc' = "none"
           /\ pc' = "concatenation"
           /\ fs' = fs
           /\ invoked' \cap {"generate_cover_image", "ffmpeg_annotation"} = {}]_vars

C8_Witness ==
    /\ pc = "concatenation"
    /\ video_encoding = "hevc"
    /\ ~ annotated
    /\ invoked = {"ffprobe_video"}

\* entry n is neither created, removed nor given other content by a step
Untouched(n) ==
    /\ n \in DOMAIN fs
    /\ n \in DOMAIN fs'
    /\ fs'[n] = fs[n]

\* C9 as stated: no directory entry other than input.txt and output.mkv is
\* created, removed, renamed or overwritten.
C9_OnlyManifestAndOutputChange ==
    [][\A n \in ((DOMAIN fs) \cup (DOMAIN fs')) \ {INPUT_TXT, OUTPUT_NAME} : Untouched(n)]_vars

\* C9 amended: the only entries created or overwritten are input.txt,
\* output.mkv, cover.png and annotation_0.<ext> (ext from the first listed
\* video), and the only entry removed is a single eligible input, which the
\* Concatenator renames to output.mkv.
C9_OnlyToolFilesChange ==
    [][\A n \in (DOMAIN fs) \cup (DOMAIN fs') :
        \/ Untouched(n)
        \/ n \in {INPUT_TXT, OUTPUT_NAME}
        \/ /\ pc = "annotation"
           /\ n \in {COVER_NAME, AnnotationName(video0')}
           /\ n \in DOMAIN fs'
        \/ /\ pc = "concatenation"
           /\ _get_video_list(DOMAIN fs) = {n}
           /\ OUTPUT_NAME \notin DOMAIN fs
           /\ n \notin DOMAIN fs'
           /\ fs'[OUTPUT_NAME] = fs[n]]_vars

C9_Witness ==
    /\ pc = "done"
    /\ annotated
    /\ COVER_NAME \in DOMAIN fs
    /\ AnnotationName(video0) \in DOMAIN fs
    /\ fs[OUTPUT_NAME] = "output"
    /\ \A n \in InitialNames \ {OUTPUT_NAME} : n \in DOMAIN fs => fs[n] = "original"

\* C10: in a run where the annotation clip was generated and the
\* Concatenator then writes the manifest, the clip is an eligible input with
\* key 0 and the extension of the first listed video, and it is the first
\* line of the manifest whenever every other eligible file has a key of at
\* least 1.
C10_AnnotationLeadsManifest ==
    (annotated /\ "write_manifest" \in invoked)
        => LET clip == AnnotationName(video0)
           IN  /\ clip \in ListedVideos
               /\ _video_number(clip) = 0
               /\ RsplitLast(clip) = RsplitLast(video0)
               /\ (\A v \in ListedVideos \ {clip} : _video_number(v) >= 1)
                    => /\ manifest # <<>>
                       /\ manifest[1] = ManifestLine(clip)

C10_Witness ==
    /\ annotated
    /\ "write_manifest" \in invoked
    /\ Len(manifest) >= 3
    /\ manifest[1] = ManifestLine(AnnotationName(video0))
    /\ manifest[Len(manifest)] # manifest[1]

====
